---- MODULE Spec2Model ----
(***************************************************************************)
(* The runtime value of the Uiua interpreter (src/src/value.rs): the       *)
(* tagged array Value, its equality / order / hash, compress, the          *)
(* validated extractors and the binary pervasive dispatch.                 *)
(*                                                                         *)
(* Numbers.  An f64 is modelled as a fixed-point number: the integer x     *)
(* stands for x / Scale.  F64_EPSILON is the machine epsilon of that       *)
(* format, one unit.  A u8 is an integer in 0..U8_MAX and a char is its    *)
(* code point.  ToDouble is the widening `as f64`, AsU8 / AsUsize /        *)
(* AsIsize are Rust's saturating `as` casts.                               *)
(*                                                                         *)
(* Values.  A Value is [kind, shape, data]: kind is the enum variant,      *)
(* shape and data are the fields of the Array it holds.  A Function is     *)
(* [boxed, id, val]: a boxed constant holding val, or the opaque           *)
(* function number id.                                                     *)
(*                                                                         *)
(* array.rs, function.rs and algorithm/pervade.rs are not part of src/;    *)
(* the definitions that stand for them are marked "not in src/" and follow *)
(* spec.md.                                                                *)
(***************************************************************************)
EXTENDS Integers, Sequences, FiniteSets, TLC

VARIABLES
    a,         \* the receiver (self) of the operation; mutated by compress
    a0,        \* the receiver as it was constructed
    b,         \* the second operand
    c,         \* a third Value, for the order's transitivity
    env,       \* the execution context: [num_fill, byte_fill]
    op,        \* the operation applied last
    calls,     \* how many operations have been applied
    res,       \* what the last operation returned
    attempts,  \* the bin_pervade calls the last operation made, in order
    builder,   \* the ValueBuilder: [value, rows, capacity]
    added,     \* the add_row calls made so far: [row, ok], in order
    heap,      \* the array buffers: buffer number -> [data, owners]
    held,      \* the clones taken before the call, as [kind, shape, buf]
    buf,       \* the buffer the parallel loop runs over
    workers,   \* the workers of the parallel loop: [pc, slot, last, val]
    writes     \* the workers that have written each slot of buf, in order

valueVars == <<a, a0, b, c, env, op, calls, res, attempts>>

builderVars == <<builder, added>>

ownVars == <<heap, held>>

parVars == <<buf, workers, writes>>

vars == <<valueVars, builderVars, ownVars, parVars>>

\* no ValueBuilder is in use
NoBuilder == builder = [value |-> <<>>, rows |-> 0, capacity |-> 0] /\ added = <<>>

\* no buffer is tracked
NoSharing == heap = <<>> /\ held = <<>>

\* no parallel loop is running
NoLoop == buf = <<>> /\ workers = <<>> /\ writes = <<>>

----------------------------------------------------------------------------
\* Bounds of the model.

\* The longest axis of a generated array.
MaxLen == 2

\* The resolution of the fixed-point f64: x stands for x / Scale.
Scale == 4

\* How many times compress is applied to one Value.
MaxCalls == 2

\* How many rows are added to one ValueBuilder.
MaxRows == 3

\* How many operations are applied to one Value one after another.
MaxSteps == 3

\* How many workers the parallel loop runs on.
MaxWorkers == 2

----------------------------------------------------------------------------
\* Numbers.

\* u8::MAX
U8_MAX == 255

\* f64::EPSILON, the gap between 1.0 and the next f64: one unit of the format.
F64_EPSILON == 1

Half == Scale \div 2

\* `byte as f64`, f64::from(byte)
ToDouble(byte) == byte * Scale

\* the integer part of an f64, toward zero (f64::trunc)
Trunc(x) == IF x >= 0 THEN x \div Scale ELSE -((-x) \div Scale)

\* f64::fract: x - x.trunc(), with the sign of x
Fract(x) == x - Trunc(x) * Scale

\* f64::abs
Abs(x) == IF x < 0 THEN -x ELSE x

\* `f as u8`: truncates toward zero and saturates at 0 and u8::MAX
AsU8(x) == IF Trunc(x) < 0 THEN 0 ELSE IF Trunc(x) > U8_MAX THEN U8_MAX ELSE Trunc(x)

\* `f as usize`: truncates toward zero and saturates at 0
AsUsize(x) == IF Trunc(x) < 0 THEN 0 ELSE Trunc(x)

\* `f as isize`: truncates toward zero
AsIsize(x) == Trunc(x)

\* x is one of the integers 0..255 (what a byte can hold)
IsByteValued(x) == \E n \in 0..U8_MAX : x = ToDouble(n)

----------------------------------------------------------------------------
\* Values.

RECURSIVE Product(_)
\* the element count of a shape: 1 for the empty shape
Product(shape) == IF shape = <<>> THEN 1 ELSE Head(shape) * Product(Tail(shape))

\* Value::from((shape, data)) for the variant kind
Array(kind, shape, data) == [kind |-> kind, shape |-> shape, data |-> data]

\* the absence of a Value (Option::None, and the val of an opaque function)
NoValue == [kind |-> "None", shape |-> <<>>, data |-> <<>>]

\* Function::constant(value): a boxed constant
constant(value) == [boxed |-> TRUE, id |-> 0, val |-> value]

\* a function that is not a boxed constant
Opaque(id) == [boxed |-> FALSE, id |-> id, val |-> NoValue]

\* Value::rank
rank(v) == Len(v.shape)

\* Value::type_name
type_name(v) ==
    IF v.kind \in {"Num", "Byte"} THEN "number"
    ELSE IF v.kind = "Char" THEN "character"
    ELSE "function"

\* Array<u8>::convert to Array<f64>: every byte widened
convert(v) ==
    IF v.kind = "Byte"
    THEN Array("Num", v.shape, [i \in 1..Len(v.data) |-> ToDouble(v.data[i])])
    ELSE v

\* the same kind, shape and data
Same(x, y) == x.kind = y.kind /\ x.shape = y.shape /\ x.data = y.data

----------------------------------------------------------------------------
\* Equality, order and hash of arrays and functions (array.rs and function.rs,
\* not in src/): spec.md section 3: within a kind compare naturally, Num and
\* Byte compare numerically against each other.

\* the elements of a numeric or character array as comparable numbers
AsDoubles(v) ==
    IF v.kind = "Byte" THEN [i \in 1..Len(v.data) |-> ToDouble(v.data[i])] ELSE v.data

\* Ordering of two numbers
OrderingOf(x, y) == IF x < y THEN "Less" ELSE IF x > y THEN "Greater" ELSE "Equal"

\* Ordering::then
Then(o1, o2) == IF o1 # "Equal" THEN o1 ELSE o2

RECURSIVE LexCmp(_, _)
\* the lexicographic order of two sequences of numbers
LexCmp(s, t) ==
    IF s = <<>> /\ t = <<>> THEN "Equal"
    ELSE IF s = <<>> THEN "Less"
    ELSE IF t = <<>> THEN "Greater"
    ELSE Then(OrderingOf(Head(s), Head(t)), LexCmp(Tail(s), Tail(t)))

RECURSIVE eq(_, _)
RECURSIVE cmp(_, _)
RECURSIVE hash(_)

\* Function == Function: boxed constants by their values, others by identity
function_eq(f, g) ==
    IF f.boxed /\ g.boxed THEN eq(f.val, g.val)
    ELSE f.boxed = g.boxed /\ f.id = g.id

\* Function::cmp: boxed constants by their values, and before the others
function_cmp(f, g) ==
    IF f.boxed /\ g.boxed THEN cmp(f.val, g.val)
    ELSE IF f.boxed THEN "Less"
    ELSE IF g.boxed THEN "Greater"
    ELSE OrderingOf(f.id, g.id)

RECURSIVE FunctionsCmp(_, _)
\* the lexicographic order of two sequences of functions
FunctionsCmp(s, t) ==
    IF s = <<>> /\ t = <<>> THEN "Equal"
    ELSE IF s = <<>> THEN "Less"
    ELSE IF t = <<>> THEN "Greater"
    ELSE Then(function_cmp(Head(s), Head(t)), FunctionsCmp(Tail(s), Tail(t)))

\* Array<T> == Array<U>: the same shape and equal elements
array_eq(x, y) ==
    /\ x.shape = y.shape
    /\ IF x.kind = "Func"
       THEN \A i \in 1..Len(x.data) : function_eq(x.data[i], y.data[i])
       ELSE AsDoubles(x) = AsDoubles(y)

\* Array<T>::cmp / partial_cmp: by shape, then by the elements in order
array_cmp(x, y) ==
    Then(LexCmp(x.shape, y.shape),
         IF x.kind = "Func" THEN FunctionsCmp(x.data, y.data)
         ELSE LexCmp(AsDoubles(x), AsDoubles(y)))

RECURSIVE Flatten(_)
\* the concatenation of a sequence of sequences
Flatten(ss) == IF ss = <<>> THEN <<>> ELSE Head(ss) \o Flatten(Tail(ss))

\* Function::hash: what a function feeds to the hasher
function_hash(f) == IF f.boxed THEN hash(f.val) ELSE <<f.id>>

\* Array<T>::hash: what an array feeds to the hasher: its shape, then every
\* element by its numeric value (a byte feeds what the equal f64 feeds)
array_hash(v) ==
    <<Len(v.shape)>> \o v.shape \o
    (IF v.kind = "Func"
     THEN Flatten([i \in 1..Len(v.data) |-> function_hash(v.data[i])])
     ELSE AsDoubles(v))

----------------------------------------------------------------------------
\* impl PartialEq, Ord, Hash for Value, and Value::compress.

\* eq with the Num/Byte arms left out, so that a mixed pair is never equal
eq_NoMixedArms(x, y) ==
    IF x.kind = y.kind THEN array_eq(x, y) ELSE FALSE

\* impl PartialEq for Value
eq(x, y) ==
    IF x.kind = "Num" /\ y.kind = "Num" THEN array_eq(x, y)
    ELSE IF x.kind = "Byte" /\ y.kind = "Byte" THEN array_eq(x, y)
    ELSE IF x.kind = "Char" /\ y.kind = "Char" THEN array_eq(x, y)
    ELSE IF x.kind = "Func" /\ y.kind = "Func" THEN array_eq(x, y)
    ELSE IF x.kind = "Num" /\ y.kind = "Byte" THEN array_eq(x, y)
    ELSE IF x.kind = "Byte" /\ y.kind = "Num" THEN array_eq(x, y)
    ELSE FALSE

\* cmp with the Byte arms placed before the Num arms
cmp_ByteArmsFirst(x, y) ==
    IF x.kind = y.kind THEN array_cmp(x, y)
    ELSE IF x.kind = "Num" /\ y.kind = "Byte" THEN array_cmp(x, y)
    ELSE IF x.kind = "Byte" /\ y.kind = "Num" THEN array_cmp(x, y)
    ELSE IF x.kind = "Byte" THEN "Less"
    ELSE IF y.kind = "Byte" THEN "Greater"
    ELSE IF x.kind = "Char" THEN "Less"
    ELSE IF y.kind = "Char" THEN "Greater"
    ELSE IF x.kind = "Num" THEN "Less"
    ELSE "Greater"

\* impl Ord for Value
cmp(x, y) ==
    IF x.kind = "Num" /\ y.kind = "Num" THEN array_cmp(x, y)
    ELSE IF x.kind = "Byte" /\ y.kind = "Byte" THEN array_cmp(x, y)
    ELSE IF x.kind = "Char" /\ y.kind = "Char" THEN array_cmp(x, y)
    ELSE IF x.kind = "Func" /\ y.kind = "Func" THEN array_cmp(x, y)
    ELSE IF x.kind = "Num" /\ y.kind = "Byte" THEN array_cmp(x, y)
    ELSE IF x.kind = "Byte" /\ y.kind = "Num" THEN array_cmp(x, y)
    ELSE IF x.kind = "Num" THEN "Less"
    ELSE IF y.kind = "Num" THEN "Greater"
    ELSE IF x.kind = "Byte" THEN "Less"
    ELSE IF y.kind = "Byte" THEN "Greater"
    ELSE IF x.kind = "Char" THEN "Less"
    ELSE "Greater"

\* the byte each variant feeds to the hasher before its array
HashTag(v) ==
    IF v.kind = "Num" THEN 0
    ELSE IF v.kind = "Byte" THEN 1
    ELSE IF v.kind = "Char" THEN 2
    ELSE 3

\* impl Hash for Value: the data fed to the hasher, in order
hash(v) == <<HashTag(v)>> \o array_hash(v)

\* compress without the upper limit u8::MAX
compress_NoUpperLimit(v) ==
    IF v.kind = "Num"
       /\ \A i \in 1..Len(v.data) : Fract(v.data[i]) = 0 /\ v.data[i] >= 0
    THEN Array("Byte", v.shape, [i \in 1..Len(v.data) |-> AsU8(v.data[i])])
    ELSE v

\* Value::compress: self after the call
compress(v) ==
    IF v.kind = "Num"
       /\ \A i \in 1..Len(v.data) :
            /\ Fract(v.data[i]) = 0
            /\ v.data[i] <= ToDouble(U8_MAX)
            /\ v.data[i] >= 0
    THEN Array("Byte", v.shape, [i \in 1..Len(v.data) |-> AsU8(v.data[i])])
    ELSE v

----------------------------------------------------------------------------
\* The Values the operations are applied to.

\* the shapes of rank 0 and 1 with an axis of at most MaxLen
Shapes1 == {<<>>} \cup {<<n>> : n \in 0..MaxLen}

\* every array of the variant kind with a shape of shapes and elements of elems
ArraysOf(kind, shapes, elems) ==
    UNION {{Array(kind, s, d) : d \in [1..Product(s) -> elems]} : s \in shapes}

\* a context without fill values
NoFill == [num_fill |-> <<>>, byte_fill |-> <<>>]

\* the functions stored in the generated Func arrays
SomeFunctions ==
    {constant(Array("Num", <<>>, <<Scale>>)),
     constant(Array("Byte", <<>>, <<1>>)),
     Opaque(1)}

\* 0.5 and 1.0; 0 and 1; 'a'; boxed 1.0, boxed 1 and a function
OrdValues ==
    ArraysOf("Num", Shapes1, {Half, Scale})
    \cup ArraysOf("Byte", Shapes1, {0, 1})
    \cup ArraysOf("Char", Shapes1, {97})
    \cup ArraysOf("Func", {<<>>, <<1>>}, SomeFunctions)

\* -1.0, 0.0, 0.5, 1.0, 255.0 and 256.0
CompressNums == {-Scale, 0, Half, Scale, ToDouble(U8_MAX), ToDouble(U8_MAX) + Scale}

CompressValues ==
    ArraysOf("Num", Shapes1 \cup {<<1, 1>>}, CompressNums)
    \cup ArraysOf("Byte", Shapes1, {0, U8_MAX})
    \cup ArraysOf("Char", Shapes1, {97})
    \cup ArraysOf("Func", {<<>>, <<1>>}, SomeFunctions)

----------------------------------------------------------------------------
\* Equality, order, hash and compress applied to constructed Values.

InitOrd ==
    /\ a \in OrdValues
    /\ a0 = a
    /\ b \in OrdValues
    /\ c = NoValue
    /\ env = NoFill
    /\ op = "new"
    /\ calls = 0
    /\ res = NoValue
    /\ attempts = <<>>
    /\ NoBuilder
    /\ NoSharing
    /\ NoLoop

\* a == b, b == a, a.cmp(&b), ... and the hashes of a and b
Compare ==
    /\ calls = 0
    /\ \E z \in OrdValues : c' = z
    /\ res' = [eq_ab |-> eq(a, b), eq_ba |-> eq(b, a),
               cmp_aa |-> cmp(a, a), cmp_ab |-> cmp(a, b), cmp_ba |-> cmp(b, a),
               cmp_bc |-> cmp(b, c'), cmp_ac |-> cmp(a, c'),
               eq_bc |-> eq(b, c'), eq_ac |-> eq(a, c'),
               hash_a |-> hash(a), hash_b |-> hash(b)]
    /\ op' = "compare"
    /\ calls' = 1
    /\ UNCHANGED <<a, a0, b, env, attempts>>
    /\ UNCHANGED <<builderVars, ownVars, parVars>>

\* a byte array against the Num array of its elements converted to double
CompareConverted ==
    /\ calls = 0
    /\ a.kind = "Byte"
    /\ b' = convert(a)
    /\ res' = [eq_ab |-> eq(a, b'), eq_ba |-> eq(b', a),
               cmp_ab |-> cmp(a, b'), cmp_ba |-> cmp(b', a),
               hash_a |-> hash(a), hash_b |-> hash(b')]
    /\ op' = "converted"
    /\ calls' = 1
    /\ UNCHANGED <<a, a0, c, env, attempts>>
    /\ UNCHANGED <<builderVars, ownVars, parVars>>

\* a.compress(), with the hash of a before and after and a after the first call
Compress ==
    /\ op \in {"new", "compress"}
    /\ calls < MaxCalls
    /\ a' = compress(a)
    /\ res' = [before |-> hash(a), after |-> hash(a'),
               first |-> IF calls = 0 THEN a' ELSE res.first]
    /\ op' = "compress"
    /\ calls' = calls + 1
    /\ UNCHANGED <<a0, b, c, env, attempts>>
    /\ UNCHANGED <<builderVars, ownVars, parVars>>

NextOrd == Compare \/ CompareConverted \/ Compress

SpecOrd == InitOrd /\ [][NextOrd]_vars

InitCompress ==
    /\ a \in CompressValues
    /\ a0 = a
    /\ b = NoValue
    /\ c = NoValue
    /\ env = NoFill
    /\ op = "new"
    /\ calls = 0
    /\ res = NoValue
    /\ attempts = <<>>
    /\ NoBuilder
    /\ NoSharing
    /\ NoLoop

NextCompress == Compress

SpecCompress == InitCompress /\ [][NextCompress]_vars

----------------------------------------------------------------------------
\* The validated extractors.  A result is Ok(val) or Err(msg); a message is the
\* sequence of the pieces format! joins.

Ok(val) == [ok |-> TRUE, val |-> val, msg |-> <<>>, fill |-> FALSE]

\* Err(env.error(msg)): an error that is not of the fill class
Err(msg) == [ok |-> FALSE, val |-> NoValue, msg |-> msg, fill |-> FALSE]

\* format!("{requirement}, but its rank is {}", rank)
RankMessage(requirement, v) == <<requirement, ", but its rank is ", ToString(rank(v))>>

\* Value::as_bool
as_bool(v, requirement) ==
    IF v.kind = "Num" THEN
        IF rank(v) > 0 THEN Err(RankMessage(requirement, v))
        ELSE IF Abs(Fract(v.data[1])) > F64_EPSILON
        THEN Err(<<requirement, ", but it has a fractional part">>)
        ELSE Ok(v.data[1] # 0)
    ELSE IF v.kind = "Byte" THEN
        IF rank(v) > 0 THEN Err(RankMessage(requirement, v))
        ELSE Ok(v.data[1] # 0)
    ELSE Err(<<requirement, ", but it is ", type_name(v)>>)

\* Value::as_nat
as_nat(v, requirement) ==
    IF v.kind = "Num" THEN
        IF rank(v) > 0 THEN Err(RankMessage(requirement, v))
        ELSE IF v.data[1] < 0
        THEN Err(<<requirement, ", but it is negative">>)
        ELSE IF Abs(Fract(v.data[1])) > F64_EPSILON
        THEN Err(<<requirement, ", but it has a fractional part">>)
        ELSE Ok(AsUsize(v.data[1]))
    ELSE IF v.kind = "Byte" THEN
        IF rank(v) > 0 THEN Err(RankMessage(requirement, v))
        ELSE Ok(v.data[1])
    ELSE Err(<<requirement, ", but it is ", type_name(v)>>)

\* Value::as_int
as_int(v, requirement) ==
    IF v.kind = "Num" THEN
        IF rank(v) > 0 THEN Err(RankMessage(requirement, v))
        ELSE IF Abs(Fract(v.data[1])) > F64_EPSILON
        THEN Err(<<requirement, ", but it has a fractional part">>)
        ELSE Ok(AsIsize(v.data[1]))
    ELSE IF v.kind = "Byte" THEN
        IF rank(v) > 0 THEN Err(RankMessage(requirement, v))
        ELSE Ok(v.data[1])
    ELSE Err(<<requirement, ", but it is ", type_name(v)>>)

\* Value::as_num
as_num(v, requirement) ==
    IF v.kind = "Num" THEN
        IF rank(v) > 0 THEN Err(RankMessage(requirement, v))
        ELSE Ok(v.data[1])
    ELSE IF v.kind = "Byte" THEN
        IF rank(v) > 0 THEN Err(RankMessage(requirement, v))
        ELSE Ok(ToDouble(v.data[1]))
    ELSE Err(<<requirement, ", but it is ", type_name(v)>>)

\* the closures as_indices, as_integers ("integer") and as_naturals ("natural")
\* pass to as_number_list as test
Test(test, f) ==
    IF test = "natural" THEN Fract(f) = 0 /\ f >= 0 ELSE Fract(f) = 0

\* the closures passed as convert: `f as usize` or `f as isize`
Convert(test, f) == IF test = "natural" THEN AsUsize(f) ELSE AsIsize(f)

\* Value::as_number_list
as_number_list(v, requirement, test) ==
    IF v.kind \in {"Num", "Byte"} THEN
        IF rank(v) > 1 THEN Err(RankMessage(requirement, v))
        ELSE IF \E i \in 1..Len(v.data) : ~Test(test, AsDoubles(v)[i])
        THEN Err(<<requirement>>)
        ELSE Ok([i \in 1..Len(v.data) |-> Convert(test, AsDoubles(v)[i])])
    ELSE Err(<<requirement, ", but it is ", type_name(v), "s">>)

\* Value::as_indices
as_indices(v, requirement) == as_number_list(v, requirement, "integer")

\* Value::as_naturals
as_naturals(v, requirement) == as_number_list(v, requirement, "natural")

\* Value::as_integers
as_integers(v, requirement) == as_number_list(v, requirement, "integer")

\* Value::as_string: the characters collected
as_string(v, requirement) ==
    IF v.kind = "Char" THEN
        IF rank(v) > 1 THEN Err(RankMessage(requirement, v))
        ELSE Ok(v.data)
    ELSE Err(<<requirement, ", but its type is ", type_name(v)>>)

\* the UTF-8 encoding of a character below U+0800
Utf8(ch) == IF ch < 128 THEN <<ch>> ELSE <<192 + (ch \div 64), 128 + (ch % 64)>>

\* Value::into_bytes
into_bytes(v, requirement) ==
    IF v.kind = "Byte" THEN
        IF rank(v) # 1 THEN Err(RankMessage(requirement, v))
        ELSE Ok(v.data)
    ELSE IF v.kind = "Num" THEN
        IF rank(v) # 1 THEN Err(RankMessage(requirement, v))
        ELSE Ok([i \in 1..Len(v.data) |-> AsU8(v.data[i])])
    ELSE IF v.kind = "Char" THEN
        IF rank(v) # 1 THEN Err(RankMessage(requirement, v))
        ELSE Ok(Flatten([i \in 1..Len(v.data) |-> Utf8(v.data[i])]))
    ELSE Err(<<requirement, ", but its type is ", type_name(v)>>)

\* the extractors by name
Extractors ==
    {"as_bool", "as_nat", "as_int", "as_num", "as_indices", "as_naturals",
     "as_integers", "as_string", "into_bytes"}

\* the extractor name applied to v
Extract(name, v, requirement) ==
    CASE name = "as_bool" -> as_bool(v, requirement)
      [] name = "as_nat" -> as_nat(v, requirement)
      [] name = "as_int" -> as_int(v, requirement)
      [] name = "as_num" -> as_num(v, requirement)
      [] name = "as_indices" -> as_indices(v, requirement)
      [] name = "as_naturals" -> as_naturals(v, requirement)
      [] name = "as_integers" -> as_integers(v, requirement)
      [] name = "as_string" -> as_string(v, requirement)
      [] name = "into_bytes" -> into_bytes(v, requirement)

\* -1.5, -1.0, 0.0, one epsilon, 0.5, 1.0 + epsilon, 3.0 and 256.0
ExtractNums ==
    {-Scale - Half, -Scale, 0, F64_EPSILON, Half, Scale + F64_EPSILON, 3 * Scale,
     ToDouble(U8_MAX) + Scale}

ExtractValues ==
    ArraysOf("Num", Shapes1 \cup {<<1, 1>>}, ExtractNums)
    \cup ArraysOf("Byte", Shapes1 \cup {<<1, 1>>}, {0, 3})
    \cup ArraysOf("Char", Shapes1 \cup {<<1, 1>>}, {97, 233})
    \cup ArraysOf("Func", {<<>>, <<1>>}, SomeFunctions)

\* the requirement texts callers pass
Requirements == {"Index must be an integer", "Count must be a natural number"}

InitExtract ==
    /\ a \in ExtractValues
    /\ a0 = a
    /\ b = NoValue
    /\ c = NoValue
    /\ env = NoFill
    /\ op = "new"
    /\ calls = 0
    /\ res = NoValue
    /\ attempts = <<>>
    /\ NoBuilder
    /\ NoSharing
    /\ NoLoop

\* one extractor applied to a with a requirement text; res.req keeps the text
ExtractCall ==
    /\ calls = 0
    /\ \E name \in Extractors, requirement \in Requirements :
           LET r == Extract(name, a, requirement)
           IN  /\ op' = name
               /\ res' = [ok |-> r.ok, val |-> r.val, msg |-> r.msg,
                          fill |-> r.fill, req |-> requirement]
    /\ calls' = 1
    /\ UNCHANGED <<a, a0, b, c, env, attempts>>
    /\ UNCHANGED <<builderVars, ownVars, parVars>>

NextExtract == ExtractCall

SpecExtract == InitExtract /\ [][NextExtract]_vars

----------------------------------------------------------------------------
\* The scalar functions and the element-wise loop of algorithm/pervade.rs (not
\* in src/).  spec.md section 4.2: same kind applies the kind's scalar
\* function, a mixed Num/Byte pair promotes the Byte side and applies the Num
\* function, shapes broadcast when they agree on a shared prefix, and a shape
\* mismatch is reconciled with the fill value of the context or fails with an
\* error of the fill class.  The argument order follows the arms of sub
\* (value.rs:872-875: a number is subtracted from a character, never a
\* character from a number): the left operand is applied to the right one.

ArithOps == {"add", "sub", "mul", "div", "modulus", "pow", "log", "atan2", "min", "max"}

CmpOps == {"is_eq", "is_ne", "is_lt", "is_le", "is_gt", "is_ge"}

\* the public binary pervasive operations
BinOps == ArithOps \cup CmpOps

\* the Num scalar function of an arithmetic operation on two f64; division,
\* modulus, power, logarithm and atan2 leave the fixed-point format and stay
\* uninterpreted terms of their operands
NumNum(name, x, y) ==
    CASE name = "add" -> y + x
      [] name = "sub" -> y - x
      [] name = "mul" -> (y * x) \div Scale
      [] name = "min" -> IF x < y THEN x ELSE y
      [] name = "max" -> IF x > y THEN x ELSE y
      [] OTHER -> <<name, x, y>>

\* whether the comparison name holds of the Ordering of the right operand
\* against the left one
Holds(name, ordering) ==
    CASE name = "is_eq" -> ordering = "Equal"
      [] name = "is_ne" -> ordering # "Equal"
      [] name = "is_lt" -> ordering = "Less"
      [] name = "is_le" -> ordering # "Greater"
      [] name = "is_gt" -> ordering = "Greater"
      [] name = "is_ge" -> ordering # "Less"

\* bool as u8
BoolByte(p) == IF p THEN 1 ELSE 0

\* an operand of the variant kind as an f64
Widen(kind, x) == IF kind = "Byte" THEN ToDouble(x) ELSE x

\* the variant of the array a scalar function produces
ResultKind(name, f, ka, kb) ==
    IF name \in CmpOps THEN "Byte"
    ELSE IF f = "char_char" THEN (IF name = "sub" THEN "Num" ELSE "Char")
    ELSE IF "Char" \in {ka, kb} THEN "Char"
    ELSE "Num"

\* the scalar function name::f applied to x of the variant ka and y of kb
Scalar(name, f, ka, kb, x, y) ==
    IF name \in CmpOps THEN
        IF f = "always_less" THEN BoolByte(Holds(name, "Greater"))
        ELSE IF f = "always_greater" THEN BoolByte(Holds(name, "Less"))
        ELSE IF ka = "Func" THEN BoolByte(Holds(name, function_cmp(y, x)))
        ELSE BoolByte(Holds(name, OrderingOf(Widen(kb, y), Widen(ka, x))))
    ELSE IF f = "char_char" THEN
        IF name = "sub" THEN ToDouble(y - x) ELSE NumNum(name, x, y)
    ELSE IF ka = "Char" THEN
        x + Trunc(Widen(kb, y))
    ELSE IF kb = "Char" THEN
        IF name = "sub" THEN y - Trunc(Widen(ka, x)) ELSE y + Trunc(Widen(ka, x))
    ELSE NumNum(name, Widen(ka, x), Widen(kb, y))

\* Value::shape_prefixes_match
shape_prefixes_match(x, y) ==
    \A i \in 1..Len(x.shape) : i <= Len(y.shape) => x.shape[i] = y.shape[i]

\* the fill value the context has for elements of the variant kind
FillFor(kind, e) ==
    IF kind = "Num" THEN e.num_fill
    ELSE IF kind = "Byte" THEN e.byte_fill
    ELSE <<>>

\* the larger of two axis lengths
Larger(m, n) == IF m > n THEN m ELSE n

\* a rank-1 array extended to n elements with the fill value
Filled(v, n, fill) ==
    [i \in 1..n |-> IF i <= Len(v.data) THEN v.data[i] ELSE fill]

\* the element of v paired with the i-th element of an array of count elements
\* that v's shape is a prefix of
Cell(v, i, count) == v.data[((i - 1) \div (count \div Len(v.data))) + 1]

\* an error the fill value of the context may fix (UiuaError::fill)
FillErr(msg) == [ok |-> FALSE, val |-> NoValue, msg |-> msg, fill |-> TRUE]

\* bin_pervade(a, b, env, InfalliblePervasiveFn::new(name::f)) and
\* bin_pervade_mut: the scalar function over every pair of elements
bin_pervade(name, f, x, y, e) ==
    IF shape_prefixes_match(x, y) THEN
        LET long == IF Len(x.shape) >= Len(y.shape) THEN x ELSE y
            count == Len(long.data)
        IN  Ok(Array(ResultKind(name, f, x.kind, y.kind), long.shape,
                     [i \in 1..count |->
                         Scalar(name, f, x.kind, y.kind,
                                Cell(x, i, count), Cell(y, i, count))]))
    ELSE IF /\ Len(x.shape) = 1
            /\ Len(y.shape) = 1
            /\ FillFor(x.kind, e) # <<>>
            /\ FillFor(y.kind, e) # <<>>
    THEN
        LET n == Larger(x.shape[1], y.shape[1])
            xs == Filled(x, n, FillFor(x.kind, e)[1])
            ys == Filled(y, n, FillFor(y.kind, e)[1])
        IN  Ok(Array(ResultKind(name, f, x.kind, y.kind), <<n>>,
                     [i \in 1..n |-> Scalar(name, f, x.kind, y.kind, xs[i], ys[i])]))
    ELSE FillErr(<<"Shapes ", ToString(x.shape), " and ", ToString(y.shape),
                   " do not match">>)

----------------------------------------------------------------------------
\* Binary pervasive dispatch: value_bin_impl! and its invocations.

\* one `(na, nb, f, retry)` arm of value_bin_impl!; retry is "" when absent
Arm(na, nb, f, retry) == [na |-> na, nb |-> nb, f |-> f, retry |-> retry]

\* the three arms every arithmetic operation but atan2 has
NumericArms ==
    <<Arm("Byte", "Byte", "byte_byte", "num_num"),
      Arm("Byte", "Num", "byte_num", "num_num"),
      Arm("Num", "Byte", "num_byte", "num_num")>>

\* the table with the (Byte, Byte) arm of sub lost
Arms_SubWithoutByteByte(name) ==
    CASE name = "sub" ->
            <<Arm("Num", "Char", "num_char", ""),
              Arm("Char", "Char", "char_char", ""),
              Arm("Byte", "Char", "byte_char", ""),
              Arm("Byte", "Num", "byte_num", "num_num"),
              Arm("Num", "Byte", "num_byte", "num_num")>>
      [] OTHER -> NumericArms

\* the table with the (Char, Byte) arm of the comparisons lost
Arms_CmpWithoutCharByte(name) ==
    CASE name \in CmpOps ->
            <<Arm("Num", "Num", "num_num", ""),
              Arm("Byte", "Byte", "generic", "num_num"),
              Arm("Char", "Char", "generic", ""),
              Arm("Func", "Func", "generic", ""),
              Arm("Num", "Byte", "num_byte", "num_num"),
              Arm("Byte", "Num", "byte_num", "num_num"),
              Arm("Num", "Char", "always_less", ""),
              Arm("Byte", "Char", "always_less", ""),
              Arm("Char", "Num", "always_greater", "")>>
      [] OTHER -> NumericArms

\* the `(na, nb, f, retry)` arms of each invocation of value_bin_impl!
Arms(name) ==
    CASE name = "add" ->
            <<Arm("Num", "Char", "num_char", ""),
              Arm("Char", "Num", "char_num", ""),
              Arm("Byte", "Byte", "byte_byte", "num_num"),
              Arm("Byte", "Char", "byte_char", ""),
              Arm("Char", "Byte", "char_byte", ""),
              Arm("Byte", "Num", "byte_num", "num_num"),
              Arm("Num", "Byte", "num_byte", "num_num")>>
      [] name = "sub" ->
            <<Arm("Num", "Char", "num_char", ""),
              Arm("Char", "Char", "char_char", ""),
              Arm("Byte", "Byte", "byte_byte", "num_num"),
              Arm("Byte", "Char", "byte_char", ""),
              Arm("Byte", "Num", "byte_num", "num_num"),
              Arm("Num", "Byte", "num_byte", "num_num")>>
      [] name \in {"mul", "div", "modulus", "pow", "log", "min", "max"} ->
            NumericArms
      [] name = "atan2" ->
            <<Arm("Num", "Num", "num_num", "")>>
      [] name \in CmpOps ->
            <<Arm("Num", "Num", "num_num", ""),
              Arm("Byte", "Byte", "generic", "num_num"),
              Arm("Char", "Char", "generic", ""),
              Arm("Func", "Func", "generic", ""),
              Arm("Num", "Byte", "num_byte", "num_num"),
              Arm("Byte", "Num", "byte_num", "num_num"),
              Arm("Num", "Char", "always_less", ""),
              Arm("Byte", "Char", "always_less", ""),
              Arm("Char", "Num", "always_greater", ""),
              Arm("Char", "Byte", "always_greater", "")>>

\* the `[ip, f2]` arms of each invocation: both operands of the variant ip
InPlace(name) ==
    CASE name \in {"add", "sub", "mul", "div", "modulus", "pow", "log"} ->
            <<Arm("Num", "Num", "num_num", "")>>
      [] name \in {"min", "max"} ->
            <<Arm("Num", "Num", "num_num", ""), Arm("Char", "Char", "char_char", "")>>
      [] OTHER -> <<>>

\* the arms of the match in the order the macro writes them: in place first
MatchArms(name) == InPlace(name) \o Arms(name)

\* the first arm of arms whose pattern is (Value::ka, Value::kb), or 0
FirstArm(arms, ka, kb) ==
    IF \E i \in 1..Len(arms) : arms[i].na = ka /\ arms[i].nb = kb
    THEN CHOOSE i \in 1..Len(arms) :
            /\ arms[i].na = ka /\ arms[i].nb = kb
            /\ \A j \in 1..(i - 1) : ~(arms[j].na = ka /\ arms[j].nb = kb)
    ELSE 0

\* val_retry! with the fill asked of the context whatever the variant
val_retry_AnyContext(kind, e) == kind = "Byte"

\* val_retry!: Byte retries when the context has a numeric fill
val_retry(kind, e) == kind = "Byte" /\ e.num_fill # <<>>

\* Array::into_unboxed / as_boxed: a rank-0 array of one boxed constant
IsBoxed(v) == v.kind = "Func" /\ rank(v) = 0 /\ v.data[1].boxed

\* Value::coerce_as_function: every element wrapped as a constant function
coerce_as_function(v) ==
    IF v.kind = "Func" THEN v
    ELSE Array("Func", v.shape,
               [i \in 1..Len(v.data) |-> constant(Array(v.kind, <<>>, <<v.data[i]>>))])

\* name::error(a.type_name(), b.type_name(), env): the operand kinds mismatch
TypeError(name, x, y) == Err(<<"Cannot ", name, " ", type_name(x), " and ", type_name(y)>>)

\* one call of bin_pervade: the scalar function, the operand variants, the outcome
Attempt(f, x, y, outcome) == [f |-> f, kinds |-> <<x.kind, y.kind>>, outcome |-> outcome]

\* what a dispatch hands back: the result and the bin_pervade calls it made
Done(r, tries) == [res |-> r, attempts |-> tries]

RECURSIVE ValueBin(_, _, _, _)

\* the closure of the Func arms on one pair of functions
BoxedPair(name, f, g, e) ==
    IF ~f.boxed THEN Err(<<"First argument is not a box">>)
    ELSE IF ~g.boxed THEN Err(<<"Second argument is not a box">>)
    ELSE LET r == ValueBin(name, f.val, g.val, e).res
         IN  IF r.ok THEN Ok(constant(r.val)) ELSE r

\* bin_pervade(a, b, env, FalliblePerasiveFn::new(closure)) on two Func arrays:
\* the first failure of the closure is the failure of the whole
bin_pervade_boxed(name, x, y, e) ==
    IF shape_prefixes_match(x, y) THEN
        LET long == IF Len(x.shape) >= Len(y.shape) THEN x ELSE y
            count == Len(long.data)
            each == [i \in 1..count |->
                        BoxedPair(name, Cell(x, i, count), Cell(y, i, count), e)]
        IN  IF \E i \in 1..count : ~each[i].ok
            THEN each[CHOOSE i \in 1..count :
                        ~each[i].ok /\ \A j \in 1..(i - 1) : each[j].ok]
            ELSE Ok(Array("Func", long.shape, [i \in 1..count |-> each[i].val]))
    ELSE FillErr(<<"Shapes ", ToString(x.shape), " and ", ToString(y.shape),
                   " do not match">>)

\* Value::$name(self, other, env) as value_bin_impl! writes it
ValueBin(name, x, y, e) ==
    LET i == FirstArm(MatchArms(name), x.kind, y.kind)
        arm == MatchArms(name)[i]
    IN  IF i # 0 /\ i <= Len(InPlace(name)) THEN
            LET r == bin_pervade(name, arm.f, x, y, e)
            IN  Done(r, <<Attempt(arm.f, x, y, r)>>)
        ELSE IF i # 0 THEN
            LET r == bin_pervade(name, arm.f, x, y, e)
            IN  IF val_retry(arm.na, e) \/ val_retry(arm.nb, e) THEN
                    IF r.ok THEN Done(r, <<Attempt(arm.f, x, y, r)>>)
                    ELSE IF r.fill /\ arm.retry # "" THEN
                        LET r2 == bin_pervade(name, arm.retry, convert(x), convert(y), e)
                        IN  Done(r2, <<Attempt(arm.f, x, y, r),
                                       Attempt(arm.retry, convert(x), convert(y), r2)>>)
                    ELSE Done(r, <<Attempt(arm.f, x, y, r)>>)
                ELSE Done(r, <<Attempt(arm.f, x, y, r)>>)
        ELSE IF x.kind = "Func" THEN
            IF IsBoxed(x) THEN ValueBin(name, x.data[1].val, y, e)
            ELSE LET yf == coerce_as_function(y)
                     r == bin_pervade_boxed(name, x, yf, e)
                 IN  Done(r, <<Attempt("boxed", x, yf, r)>>)
        ELSE IF y.kind = "Func" THEN
            IF IsBoxed(y) THEN ValueBin(name, x, y.data[1].val, e)
            ELSE LET xf == coerce_as_function(x)
                     r == bin_pervade_boxed(name, xf, y, e)
                 IN  Done(r, <<Attempt("boxed", xf, y, r)>>)
        ELSE Done(TypeError(name, x, y), <<>>)

\* the contexts: no fill, a numeric fill of 0.5, a fill of 0 usable as a byte
Contexts ==
    {NoFill,
     [num_fill |-> <<Half>>, byte_fill |-> <<>>],
     [num_fill |-> <<ToDouble(0)>>, byte_fill |-> <<0>>]}

\* 0.5 and 2.0; 0 and 2; 'a'; boxed 1.0, boxed 1, a boxed list and a function
BinValues ==
    ArraysOf("Num", Shapes1, {Half, ToDouble(2)})
    \cup ArraysOf("Byte", Shapes1, {0, 2})
    \cup ArraysOf("Char", Shapes1, {97})
    \cup ArraysOf("Func", {<<>>, <<1>>},
                 SomeFunctions \cup {constant(Array("Num", <<1>>, <<Half>>))})

InitBin ==
    /\ a \in BinValues
    /\ a0 = a
    /\ b \in BinValues
    /\ c = NoValue
    /\ env \in Contexts
    /\ op = "new"
    /\ calls = 0
    /\ res = NoValue
    /\ attempts = <<>>
    /\ NoBuilder
    /\ NoSharing
    /\ NoLoop

\* a binary pervasive operation applied to a and b in the context env
BinCall ==
    /\ calls = 0
    /\ \E name \in BinOps :
           /\ op' = name
           /\ res' = ValueBin(name, a, b, env).res
           /\ attempts' = ValueBin(name, a, b, env).attempts
    /\ calls' = 1
    /\ UNCHANGED <<a, a0, b, c, env>>
    /\ UNCHANGED <<builderVars, ownVars, parVars>>

NextBin == BinCall

SpecBin == InitBin /\ [][NextBin]_vars

----------------------------------------------------------------------------
\* Claims.

\* every element of v is one of the integers 0..255
AllByteValued(v) == \A i \in 1..Len(v.data) : IsByteValued(v.data[i])

\* Ordering::reverse
Reverse(o) == IF o = "Less" THEN "Greater" ELSE IF o = "Greater" THEN "Less" ELSE "Equal"

\* C1: a byte array and the Num array of its elements converted to double are
\* equal under == in both argument orders, and cmp returns Equal for the pair in
\* both argument orders.
C1_ByteEqualsConverted ==
    op = "converted" =>
        /\ res.eq_ab
        /\ res.eq_ba
        /\ res.cmp_ab = "Equal"
        /\ res.cmp_ba = "Equal"

\* a byte array of two different bytes has been compared with its conversion
C1_Witness ==
    /\ op = "converted"
    /\ a.shape = <<2>>
    /\ a.data[1] # a.data[2]
    /\ b.kind = "Num"
    /\ b.data = <<ToDouble(a.data[1]), ToDouble(a.data[2])>>
    /\ res.eq_ab

\* C2: a byte array and its conversion to Num feed the same data to the hasher;
\* two equal Values have the same hash; compress never changes the hash.
C2_HashFollowsEquality ==
    /\ op = "converted" => res.hash_a = res.hash_b
    /\ (op = "compare" /\ res.eq_ab) => res.hash_a = res.hash_b
    /\ op = "compress" => res.after = res.before

\* C3: compress turns a Num Value whose elements are all integers in 0..255
\* into a Byte Value of the same shape that is equal to the original; a second
\* compress changes nothing; any other Value is left as it was.
C3_CompressSafeIdempotent ==
    op = "compress" =>
        /\ (a0.kind = "Num" /\ AllByteValued(a0)) =>
               /\ a.kind = "Byte"
               /\ a.shape = a0.shape
               /\ eq(a, a0)
               /\ eq(a0, a)
        /\ calls >= 2 => Same(a, res.first)
        /\ ~(a0.kind = "Num" /\ AllByteValued(a0)) => Same(a, a0)

\* a Num array of two byte-valued elements has been compressed twice
C3_Witness ==
    /\ op = "compress"
    /\ calls = 2
    /\ a0.kind = "Num"
    /\ a0.shape = <<2>>
    /\ a0.data[1] # a0.data[2]
    /\ a.kind = "Byte"
    /\ res.first.kind = "Byte"

\* C4: cmp is a strict weak order: cmp(x, x) is Equal, cmp(x, y) is the reverse
\* of cmp(y, x), Less is transitive, Equal is transitive; every Num or Byte
\* Value is Less than every Char Value and every Char Value is Less than every
\* Func Value.
C4_StrictWeakOrder ==
    op = "compare" =>
        /\ res.cmp_aa = "Equal"
        /\ res.cmp_ba = Reverse(res.cmp_ab)
        /\ (res.cmp_ab = "Less" /\ res.cmp_bc = "Less") => res.cmp_ac = "Less"
        /\ (res.cmp_ab = "Equal" /\ res.cmp_bc = "Equal") => res.cmp_ac = "Equal"
        /\ (a.kind \in {"Num", "Byte"} /\ b.kind = "Char") => res.cmp_ab = "Less"
        /\ (a.kind = "Char" /\ b.kind = "Func") => res.cmp_ab = "Less"

\* a byte array, a character and a function array have been compared in a chain
C4_Witness ==
    /\ op = "compare"
    /\ a.kind = "Byte" /\ a.shape = <<2>>
    /\ b.kind = "Char" /\ b.shape = <<>>
    /\ c.kind = "Func"
    /\ res.cmp_ab = "Less" /\ res.cmp_bc = "Less" /\ res.cmp_ac = "Less"

----------------------------------------------------------------------------
\* Claims about the binary pervasive operations.

\* the same outcome: both failures with one message, or both the same Value
SameResult(r1, r2) ==
    /\ r1.ok = r2.ok
    /\ r1.fill = r2.fill
    /\ r1.msg = r2.msg
    /\ r1.ok => Same(r1.val, r2.val)

\* a failure made by name::error: the operand kinds do not fit the operation
IsTypeError(r) == ~r.ok /\ Len(r.msg) > 0 /\ r.msg[1] = "Cannot "

\* the outcome of the operation applied last with both operands converted to Num
Promoted == ValueBin(op, convert(a), convert(b), env).res

\* two Byte Values of one shape were subtracted and a difference is negative
C5_Case ==
    /\ op = "sub"
    /\ a.kind = "Byte"
    /\ b.kind = "Byte"
    /\ a.shape = b.shape
    /\ \E i \in 1..Len(a.data) : Promoted.val.data[i] < 0

C6_MixedPairPromotes ==
    (/\ op \in BinOps
     /\ {a.kind, b.kind} = {"Num", "Byte"}
     /\ a.shape = b.shape) =>
        /\ ~IsTypeError(res)
        /\ res.ok = Promoted.ok
        /\ res.ok => eq(res.val, Promoted.val)

\* C7: at most two attempts; the second one is the Num-promoted retry, made
\* only after a fill-class failure of the first in a context with a numeric
\* fill, and its outcome is what the operation returns; without a numeric fill
\* there is one attempt and its outcome is returned as it is.
C7_OneRetryAtMost ==
    op \in BinOps =>
        /\ Len(attempts) <= 2
        /\ Len(attempts) = 2 =>
               /\ ~attempts[1].outcome.ok
               /\ attempts[1].outcome.fill
               /\ env.num_fill # <<>>
               /\ attempts[2].f = "num_num"
               /\ attempts[2].kinds = <<"Num", "Num">>
               /\ SameResult(res, attempts[2].outcome)
        /\ Len(attempts) = 1 => SameResult(res, attempts[1].outcome)
        /\ env.num_fill = <<>> =>
               /\ Len(attempts) <= 1
               /\ ~IsTypeError(res) => Len(attempts) = 1

\* a Byte operation failed on the shapes, was retried on Num and succeeded
C7_Witness ==
    /\ op = "add"
    /\ a.kind = "Byte"
    /\ b.kind = "Byte"
    /\ Len(attempts) = 2
    /\ attempts[1].f = "byte_byte"
    /\ ~attempts[1].outcome.ok
    /\ res.ok
    /\ res.val.kind = "Num"
    /\ res.val.shape = <<2>>

----------------------------------------------------------------------------
\* Claims about the validated extractors.

\* the defects a rejection may state after the requirement text
Defects(v) ==
    {<<", but its rank is ", ToString(rank(v))>>,
     <<", but it has a fractional part">>,
     <<", but it is negative">>,
     <<", but it is ", type_name(v)>>,
     <<", but it is ", type_name(v), "s">>,
     <<", but its type is ", type_name(v)>>}

\* the message has the piece among the pieces joined
Mentions(msg, piece) == \E i \in 1..Len(msg) : msg[i] = piece

\* C8: the message of every rejection is the requirement text followed by the
\* defect observed, never the requirement text alone.
C8_MessageStatesDefect ==
    (op \in Extractors /\ ~res.ok) =>
        \E defect \in Defects(a) : res.msg = <<res.req>> \o defect

\* C9: as_nat of a rank-0 Num n is Ok(n) for a non-negative integer n, fails
\* mentioning "negative" for a negative n and fails mentioning "fractional
\* part" for a non-negative n with a fractional part; as_nat of a rank-0 Byte is
\* Ok of the byte.
C9_AsNat ==
    (op = "as_nat" /\ rank(a) = 0 /\ a.kind \in {"Num", "Byte"}) =>
        LET n == a.data[1]
        IN  /\ (a.kind = "Num" /\ n >= 0 /\ Fract(n) = 0) =>
                   (res.ok /\ ToDouble(res.val) = n)
            /\ (a.kind = "Num" /\ n < 0) =>
                   (~res.ok /\ Mentions(res.msg, ", but it is negative"))
            /\ (a.kind = "Num" /\ n >= 0 /\ Fract(n) # 0) =>
                   (~res.ok /\ Mentions(res.msg, ", but it has a fractional part"))
            /\ a.kind = "Byte" => (res.ok /\ res.val = n)

\* C10: into_bytes of a rank-1 Num Value with an element that is not an integer
\* in 0..255 fails, and as_nat / as_naturals of a number below the range of
\* usize fail: no call gives a truncated, wrapped or saturated result.
C10_NoSilentLoss ==
    /\ (op = "into_bytes" /\ a.kind = "Num" /\ rank(a) = 1 /\ ~AllByteValued(a)) =>
           ~res.ok
    /\ (/\ op \in {"as_nat", "as_naturals"}
        /\ a.kind = "Num"
        /\ \E i \in 1..Len(a.data) : a.data[i] < 0) =>
           ~res.ok

----------------------------------------------------------------------------
\* ValueBuilder.

\* impl Default for Value: Array::<u8>::default(), the empty list of bytes
default == Array("Byte", <<0>>, <<>>)

\* Value::reserve_min: room for min elements; kind, shape and data stay
reserve_min(v, min) == v

\* ValueBuilder::with_capacity (ValueBuilder::new is with_capacity(0))
with_capacity(capacity) == [value |-> <<>>, rows |-> 0, capacity |-> capacity]

\* the variant of the accumulator once a row of the variant kr joined one of
\* the variant kv, or "" when the two do not go together (not in src/)
AppendKind(kv, kr) ==
    IF kv = kr THEN kv
    ELSE IF {kv, kr} = {"Num", "Byte"} THEN "Num"
    ELSE ""

\* the data of count rows of m elements, each extended to n with the fill
PadRows(data, count, m, n, fill) ==
    [j \in 1..(count * n) |->
        LET i == (j - 1) \div n
            col == ((j - 1) % n) + 1
        IN  IF col <= m THEN data[i * m + col] ELSE fill]

\* Value::append (not in src/; spec.md section 4.3): the row joins the leading
\* axis of the accumulator; a Byte side is promoted when the other is Num, a
\* row of another length is reconciled with the fill value of the context
append(value, row, ctx) ==
    LET kind == AppendKind(value.kind, row.kind)
        v == IF value.kind = kind THEN value ELSE convert(value)
        r == IF row.kind = kind THEN row ELSE convert(row)
    IN  IF kind = "" THEN
            Err(<<"Cannot add ", type_name(row), " row to ", type_name(value), " array">>)
        ELSE IF v.shape # <<>> /\ Tail(v.shape) = r.shape THEN
            Ok(Array(kind, <<v.shape[1] + 1>> \o r.shape, v.data \o r.data))
        ELSE IF Len(v.shape) = 2 /\ Len(r.shape) = 1 /\ FillFor(kind, ctx) # <<>> THEN
            LET n == Larger(v.shape[2], r.shape[1])
                fill == FillFor(kind, ctx)[1]
            IN  Ok(Array(kind, <<v.shape[1] + 1, n>>,
                         PadRows(v.data, v.shape[1], v.shape[2], n, fill)
                         \o PadRows(r.data, 1, r.shape[1], n, fill)))
        ELSE FillErr(<<"Cannot add shape ", ToString(r.shape), " row to array with shape ",
                       ToString(v.shape)>>)

\* add_row with the leading dimension of the first row forgotten
add_row_NoLeadingDimension(bld, row, ctx) ==
    IF bld.value # <<>> THEN
        LET r == append(bld.value[1], row, ctx)
        IN  IF r.ok
            THEN [builder |-> [bld EXCEPT !.value = <<r.val>>, !.rows = @ + 1],
                  res |-> Ok(NoValue)]
            ELSE [builder |-> bld, res |-> r]
    ELSE [builder |-> [bld EXCEPT !.value = <<reserve_min(row, bld.capacity)>>,
                                  !.rows = @ + 1],
          res |-> Ok(NoValue)]

\* add_row with the row counted before the append is known to have succeeded
add_row_CountsEveryCall(bld, row, ctx) ==
    IF bld.value # <<>> THEN
        LET r == append(bld.value[1], row, ctx)
        IN  IF r.ok
            THEN [builder |-> [bld EXCEPT !.value = <<r.val>>, !.rows = @ + 1],
                  res |-> Ok(NoValue)]
            ELSE [builder |-> [bld EXCEPT !.rows = @ + 1], res |-> r]
    ELSE LET first == reserve_min(row, bld.capacity)
         IN  [builder |-> [bld EXCEPT
                              !.value = <<Array(first.kind, <<1>> \o first.shape, first.data)>>,
                              !.rows = @ + 1],
              res |-> Ok(NoValue)]

\* add_row with a leading dimension 0 inserted in the first row
add_row_LeadingDimensionZero(bld, row, ctx) ==
    IF bld.value # <<>> THEN
        LET r == append(bld.value[1], row, ctx)
        IN  IF r.ok
            THEN [builder |-> [bld EXCEPT !.value = <<r.val>>, !.rows = @ + 1],
                  res |-> Ok(NoValue)]
            ELSE [builder |-> bld, res |-> r]
    ELSE LET first == reserve_min(row, bld.capacity)
         IN  [builder |-> [bld EXCEPT
                              !.value = <<Array(first.kind, <<0>> \o first.shape, first.data)>>,
                              !.rows = @ + 1],
              res |-> Ok(NoValue)]

\* ValueBuilder::add_row: the builder afterwards and what the call returns
add_row(bld, row, ctx) ==
    IF bld.value # <<>> THEN
        LET r == append(bld.value[1], row, ctx)
        IN  IF r.ok
            THEN [builder |-> [bld EXCEPT !.value = <<r.val>>, !.rows = @ + 1],
                  res |-> Ok(NoValue)]
            ELSE [builder |-> bld, res |-> r]
    ELSE LET first == reserve_min(row, bld.capacity)
         IN  [builder |-> [bld EXCEPT
                              !.value = <<Array(first.kind, <<1>> \o first.shape, first.data)>>,
                              !.rows = @ + 1],
              res |-> Ok(NoValue)]

\* finish that forgets the accumulator
finish_AlwaysDefault(bld) == default

\* ValueBuilder::finish: self.value.unwrap_or_default()
finish(bld) == IF bld.value # <<>> THEN bld.value[1] ELSE default

\* the rows added: 0.5; 0 and 2; 'a'; a function; as scalars and short lists
BuilderRows ==
    ArraysOf("Num", Shapes1, {Half})
    \cup ArraysOf("Byte", {<<>>, <<1>>, <<2>>}, {0, 2})
    \cup ArraysOf("Char", {<<>>, <<1>>}, {97})
    \cup ArraysOf("Func", {<<>>}, {Opaque(1)})

\* the contexts of a builder: no fill, or a fill of 0 for numbers and bytes
BuilderContexts == {NoFill, [num_fill |-> <<ToDouble(0)>>, byte_fill |-> <<0>>]}

InitBuilder ==
    /\ a = NoValue
    /\ a0 = NoValue
    /\ b = NoValue
    /\ c = NoValue
    /\ env \in BuilderContexts
    /\ op = "with_capacity"
    /\ calls = 0
    /\ res = NoValue
    /\ attempts = <<>>
    /\ \E capacity \in {0, MaxRows} : builder = with_capacity(capacity)
    /\ added = <<>>
    /\ NoSharing
    /\ NoLoop

\* builder.add_row(row, env)
AddRow ==
    /\ op \in {"with_capacity", "add_row"}
    /\ Len(added) < MaxRows
    /\ \E row \in BuilderRows :
           LET r == add_row(builder, row, env)
           IN  /\ builder' = r.builder
               /\ res' = r.res
               /\ added' = Append(added, [row |-> row, ok |-> r.res.ok])
    /\ op' = "add_row"
    /\ calls' = calls + 1
    /\ UNCHANGED <<a, a0, b, c, env, attempts>>
    /\ UNCHANGED <<ownVars, parVars>>

\* builder.finish(): a is the Value handed back
Finish ==
    /\ op \in {"with_capacity", "add_row"}
    /\ a' = finish(builder)
    /\ op' = "finish"
    /\ UNCHANGED <<a0, b, c, env, calls, res, attempts>>
    /\ UNCHANGED <<builderVars, ownVars, parVars>>

NextBuilder == AddRow \/ Finish

SpecBuilder == InitBuilder /\ [][NextBuilder]_vars

----------------------------------------------------------------------------
\* Claims about ValueBuilder.

\* the add_row calls so far that returned Ok
Succeeded == {i \in 1..Len(added) : added[i].ok}

\* every row added so far has the variant and the shape of the first one
RowsAlike ==
    \A i \in 1..Len(added) :
        /\ added[i].row.kind = added[1].row.kind
        /\ added[i].row.shape = added[1].row.shape

\* the Value made directly from the rows added: they are its leading axis
Direct ==
    Array(added[1].row.kind,
          <<Len(added)>> \o added[1].row.shape,
          Flatten([i \in 1..Len(added) |-> added[i].row.data]))

\* C11: finish gives the empty Byte Value when no add_row succeeded and the
\* accumulated Value otherwise; after one add_row(row) it gives row's kind and
\* data under row's shape with a leading dimension 1.
C11_FinishYieldsAccumulator ==
    op = "finish" =>
        /\ Succeeded = {} =>
               (a.kind = "Byte" /\ a.data = <<>> /\ Same(a, default))
        /\ Succeeded # {} =>
               (builder.value # <<>> /\ Same(a, builder.value[1]))
        /\ (Len(added) = 1 /\ added[1].ok) =>
               /\ a.kind = added[1].row.kind
               /\ a.data = added[1].row.data
               /\ a.shape = <<1>> \o added[1].row.shape

\* a list of two bytes was added alone and the builder finished
C11_Witness ==
    /\ op = "finish"
    /\ Len(added) = 1
    /\ added[1].ok
    /\ added[1].row.kind = "Byte"
    /\ added[1].row.shape = <<2>>
    /\ a.shape = <<1, 2>>

\* C12: rows of one kind and one shape s added in order to a fresh builder,
\* whatever its capacity, finish as the Value of shape [n] ++ s whose data are
\* the rows' data one after another.
C12_BuilderEqualsDirect ==
    (op = "finish" /\ Len(added) >= 1 /\ RowsAlike) =>
        /\ Same(a, Direct)
        /\ eq(a, Direct)

\* three different lists of two bytes were added to a builder of capacity 0
C12_Witness ==
    /\ op = "finish"
    /\ builder.capacity = 0
    /\ Len(added) = MaxRows
    /\ RowsAlike
    /\ added[1].row.kind = "Byte"
    /\ added[1].row.shape = <<2>>
    /\ added[1].row.data # added[2].row.data
    /\ added[2].row.data # added[3].row.data
    /\ a.shape = <<3, 2>>

\* C20: the row counter is the number of add_row calls that returned Ok, the
\* accumulator is present exactly when the counter is above 0, and its leading
\* dimension is the counter.
C20_CounterCountsSuccesses ==
    /\ builder.rows = Cardinality(Succeeded)
    /\ (builder.value # <<>>) <=> (builder.rows > 0)
    /\ builder.value # <<>> => builder.value[1].shape[1] = builder.rows

\* the second of three add_row calls failed and the two others are counted
C20_Witness ==
    /\ op = "add_row"
    /\ Len(added) = 3
    /\ added[1].ok
    /\ ~added[2].ok
    /\ added[3].ok
    /\ builder.rows = 2
    /\ builder.value[1].shape[1] = 2

----------------------------------------------------------------------------
\* Unary pervasive dispatch: value_un_impl! and its invocations.  The scalar
\* functions are algorithm/pervade.rs (not in src/).

\* the public unary pervasive operations
UnOps ==
    {"neg", "not", "abs", "sign", "sqrt", "sin", "cos", "tan", "asin", "acos",
     "floor", "ceil", "round"}

\* the `[in_place, f]` arms of each invocation: the variants mutated in place
InPlaceUn(name) ==
    IF name \in {"sign", "floor", "ceil", "round"} THEN {"Num", "Byte"} ELSE {"Num"}

\* the `(make_new, f2)` arms of each invocation: the variants built anew
MakeNewUn(name) ==
    IF name \in {"sign", "floor", "ceil", "round"} THEN {} ELSE {"Byte"}

\* f64::floor in the fixed-point format
Floor(x) == (x \div Scale) * Scale

\* name::num, the scalar function on an f64; the roots and the trigonometric
\* functions leave the fixed-point format and stay uninterpreted terms
NumUn(name, x) ==
    CASE name = "neg" -> 0 - x
      [] name = "not" -> Scale - x
      [] name = "abs" -> Abs(x)
      [] name = "sign" -> IF x > 0 THEN Scale ELSE IF x < 0 THEN 0 - Scale ELSE 0
      [] name = "floor" -> Floor(x)
      [] name = "ceil" -> 0 - Floor(0 - x)
      [] name = "round" -> IF x >= 0 THEN Floor(x + Half) ELSE 0 - Floor(Half - x)
      [] OTHER -> <<name, x>>

\* name::byte, the scalar function on a u8: a u8 where the arm is in place,
\* the f64 of the widened byte where the array is built anew
ByteUn(name, x) ==
    CASE name = "sign" -> IF x > 0 THEN 1 ELSE 0
      [] name \in {"floor", "ceil", "round"} -> x
      [] OTHER -> NumUn(name, ToDouble(x))

\* name::error(type_name, env): the operand kind does not fit the operation
TypeErrorUn(name, type) == Err(<<"Cannot ", name, " ", type>>)

RECURSIVE ValueUn(_, _, _)

RECURSIVE FuncUn(_, _, _, _, _)

\* the loop of the Func arm with every function looked at for a box before
\* any of them is unboxed
FuncUn_BoxesCheckedFirst(name, v, e, i, done) ==
    IF \E k \in 1..Len(v.data) : ~v.data[k].boxed THEN TypeErrorUn(name, "function")
    ELSE IF i > Len(v.data) THEN Ok(Array("Func", v.shape, done))
    ELSE LET r == ValueUn(name, v.data[i].val, e)
         IN  IF r.ok THEN FuncUn(name, v, e, i + 1, Append(done, constant(r.val)))
             ELSE r

\* the loop of the Func arm from the i-th function on: done is new_data so
\* far; a failure returns at once and drops it
FuncUn(name, v, e, i, done) ==
    IF i > Len(v.data) THEN Ok(Array("Func", v.shape, done))
    ELSE IF v.data[i].boxed THEN
        LET r == ValueUn(name, v.data[i].val, e)
        IN  IF r.ok THEN FuncUn(name, v, e, i + 1, Append(done, constant(r.val)))
            ELSE r
    ELSE TypeErrorUn(name, "function")

\* Value::$name(self, env) as value_un_impl! writes it
ValueUn(name, v, e) ==
    IF v.kind \in InPlaceUn(name) THEN
        Ok(Array(v.kind, v.shape,
                 [i \in 1..Len(v.data) |->
                     IF v.kind = "Byte" THEN ByteUn(name, v.data[i])
                     ELSE NumUn(name, v.data[i])]))
    ELSE IF v.kind \in MakeNewUn(name) THEN
        Ok(Array("Num", v.shape, [i \in 1..Len(v.data) |-> ByteUn(name, v.data[i])]))
    ELSE IF v.kind = "Func" THEN FuncUn(name, v, e, 1, <<>>)
    ELSE TypeErrorUn(name, type_name(v))

\* -0.5, 0.5; 0, 2; 'a'; boxed 0.5, boxed 0 2, boxed 'a', a box in a box, and
\* a function
UnValues ==
    ArraysOf("Num", Shapes1, {0 - Half, Half})
    \cup ArraysOf("Byte", Shapes1, {0, 2})
    \cup ArraysOf("Char", {<<>>, <<1>>}, {97})
    \cup ArraysOf("Func", {<<>>, <<0>>, <<2>>},
                 {constant(Array("Num", <<>>, <<Half>>)),
                  constant(Array("Byte", <<2>>, <<0, 2>>)),
                  constant(Array("Char", <<>>, <<97>>)),
                  constant(Array("Func", <<>>, <<constant(Array("Num", <<1>>, <<0 - Half>>))>>)),
                  Opaque(1)})

InitUn ==
    /\ a \in UnValues
    /\ a0 = a
    /\ b = NoValue
    /\ c = NoValue
    /\ env = NoFill
    /\ op = "new"
    /\ calls = 0
    /\ res = NoValue
    /\ attempts = <<>>
    /\ NoBuilder
    /\ NoSharing
    /\ NoLoop

\* a unary pervasive operation applied to a
UnCall ==
    /\ calls = 0
    /\ \E name \in UnOps :
           /\ op' = name
           /\ res' = ValueUn(name, a, env)
    /\ calls' = 1
    /\ UNCHANGED <<a, a0, b, c, env, attempts>>
    /\ UNCHANGED <<builderVars, ownVars, parVars>>

NextUn == UnCall

SpecUn == InitUn /\ [][NextUn]_vars

----------------------------------------------------------------------------
\* Claims about the unary pervasive operations.

\* what the operation applied last makes of the i-th function of a
ElementOutcome(i) ==
    IF a.data[i].boxed THEN ValueUn(op, a.data[i].val, env)
    ELSE TypeErrorUn(op, "function")

\* the elements of a the operation applied last cannot handle
Failing == {i \in 1..Len(a.data) : ~ElementOutcome(i).ok}

\* the least of a non-empty set of numbers
Least(S) == CHOOSE i \in S : \A j \in S : i <= j

\* every function of a is a boxed constant
AllBoxed == \A i \in 1..Len(a.data) : a.data[i].boxed

\* C17 as stated: on Char a type error naming "character"; on a Func Value of
\* boxed constants only, a Func Value of the same shape with the boxed results;
\* with an element that is not a boxed constant, a type error naming "function".
C17_BoxedAlwaysSucceeds ==
    op \in UnOps =>
        /\ a.kind = "Char" => (~res.ok /\ Mentions(res.msg, "character"))
        /\ (a.kind = "Func" /\ AllBoxed) =>
               /\ res.ok
               /\ res.val.kind = "Func"
               /\ res.val.shape = a.shape
               /\ \A i \in 1..Len(a.data) :
                      res.val.data[i] = constant(ElementOutcome(i).val)
        /\ (a.kind = "Func" /\ ~AllBoxed) =>
               (~res.ok /\ Mentions(res.msg, "function"))

\* C17 amended: on Char a type error naming "character"; on a Func Value whose
\* elements are all boxed constants the operation succeeds on, a Func Value of
\* the same shape with the boxed results; otherwise the failure of the first
\* element in order that is not a boxed constant (a type error naming
\* "function") or whose unboxed value the operation fails on (that failure).
C17_FirstFailureDecides ==
    op \in UnOps =>
        /\ a.kind = "Char" => (~res.ok /\ Mentions(res.msg, "character"))
        /\ (a.kind = "Func" /\ Failing = {}) =>
               /\ res.ok
               /\ res.val.kind = "Func"
               /\ res.val.shape = a.shape
               /\ \A i \in 1..Len(a.data) :
                      res.val.data[i] = constant(ElementOutcome(i).val)
        /\ (a.kind = "Func" /\ Failing # {}) =>
               /\ ~res.ok
               /\ res.msg = ElementOutcome(Least(Failing)).msg
               /\ ~a.data[Least(Failing)].boxed => Mentions(res.msg, "function")

\* a boxed character ahead of a function that is no box: the character's error
C17_Witness ==
    /\ op = "neg"
    /\ a.kind = "Func"
    /\ a.shape = <<2>>
    /\ a.data[1].boxed
    /\ a.data[1].val.kind = "Char"
    /\ ~a.data[2].boxed
    /\ ~res.ok
    /\ Mentions(res.msg, "character")
    /\ ~Mentions(res.msg, "function")

----------------------------------------------------------------------------
\* Claims about the comparisons and the boxes of the binary operations.

\* the rank of a variant in the order of the kinds: numbers, Char, Func
KindRank(kind) ==
    IF kind \in {"Num", "Byte"} THEN 0 ELSE IF kind = "Char" THEN 1 ELSE 2

\* what the comparison applied last makes of the kinds of b and a alone
KindVerdict == BoolByte(Holds(op, OrderingOf(KindRank(b.kind), KindRank(a.kind))))

\* C16: a comparison of two operands that are not Func never fails with a type
\* mismatch, and between a Num or Byte operand and a Char operand every element
\* of the result is the verdict of the kinds, whatever the elements are.
C16_ComparisonsTotal ==
    (op \in CmpOps /\ a.kind # "Func" /\ b.kind # "Func") =>
        /\ ~IsTypeError(res)
        /\ (res.ok /\ {KindRank(a.kind), KindRank(b.kind)} = {0, 1}) =>
               /\ res.val.kind = "Byte"
               /\ \A i \in 1..Len(res.val.data) : res.val.data[i] = KindVerdict

\* the character 'a' compared with the bytes 0 and 2: the same verdict twice
C16_Witness ==
    /\ op = "is_lt"
    /\ a.kind = "Char"
    /\ a.shape = <<>>
    /\ b.kind = "Byte"
    /\ b.data = <<0, 2>>
    /\ res.ok
    /\ res.val.data[1] = res.val.data[2]
    /\ res.val.data[1] = KindVerdict

\* C18: for an arithmetic operation, a rank-0 Func operand holding a boxed
\* constant is replaced by the unboxed value and the outcome is that of the
\* operation on it; when no Func operand can be unboxed as a whole the other
\* operand is coerced to a Func array and the boxes are combined pair by pair.
C18_BoxedOperandUnwrapped ==
    op \in ArithOps =>
        /\ IsBoxed(a) => SameResult(res, ValueBin(op, a.data[1].val, b, env).res)
        /\ IsBoxed(b) => SameResult(res, ValueBin(op, a, b.data[1].val, env).res)
        /\ (a.kind = "Func" /\ ~IsBoxed(a) /\ ~IsBoxed(b)) =>
               SameResult(res, bin_pervade_boxed(op, a, coerce_as_function(b), env))
        /\ (a.kind # "Func" /\ b.kind = "Func" /\ ~IsBoxed(b)) =>
               SameResult(res, bin_pervade_boxed(op, coerce_as_function(a), b, env))

----------------------------------------------------------------------------
\* Claims about the rank rules of the extractors.

\* the extractors of a list and the extractors of one element
ListExtractors == {"as_indices", "as_naturals", "as_integers", "as_string", "into_bytes"}

ScalarExtractors == {"as_bool", "as_nat", "as_int", "as_num"}

\* a is of a kind the extractor applied last accepts
KindAccepted ==
    CASE op = "as_string" -> a.kind = "Char"
      [] op = "into_bytes" -> a.kind \in {"Num", "Byte", "Char"}
      [] OTHER -> a.kind \in {"Num", "Byte"}

\* every element of a is one the extractor applied last accepts
ElementsValid ==
    \A i \in 1..Len(a.data) :
        LET f == Widen(a.kind, a.data[i])
        IN  CASE op \in {"as_indices", "as_integers"} -> Fract(f) = 0
              [] op = "as_naturals" -> Fract(f) = 0 /\ f >= 0
              [] op = "into_bytes" -> a.kind = "Num" => IsByteValued(f)
              [] OTHER -> TRUE

\* C19: a list extractor accepts an operand of an accepted kind with valid
\* elements whenever its rank is at most 1 and rejects it with the actual rank
\* whenever its rank is above 1; a scalar extractor rejects an operand with the
\* actual rank whenever its rank is above 0, before it looks at the element.
C19_RankRules ==
    KindAccepted =>
        /\ (op \in ListExtractors /\ ElementsValid /\ rank(a) <= 1) => res.ok
        /\ (op \in ListExtractors /\ rank(a) > 1) =>
               (~res.ok /\ res.msg = RankMessage(res.req, a))
        /\ (op \in ScalarExtractors /\ rank(a) > 0) =>
               (~res.ok /\ res.msg = RankMessage(res.req, a))

----------------------------------------------------------------------------
\* Operations one after another on one Value: every result is the operand of
\* the next operation.  One operation stands for each arm of the dispatch.

\* neg: Num in place, Byte built anew; sign: Num and Byte in place
SeqUnOps == {"neg", "sign"}

\* add: in place, promotion, retry and boxes; is_le: the arms of the comparisons
SeqBinOps == {"add", "is_le"}

\* the second operands: 0.5, the bytes 0 and 2, 'a', the boxed list of the byte 2
SeqOperands ==
    {Array("Num", <<>>, <<Half>>),
     Array("Byte", <<2>>, <<0, 2>>),
     Array("Char", <<>>, <<97>>),
     Array("Func", <<>>, <<constant(Array("Byte", <<1>>, <<2>>))>>)}

\* the Values constructed first: 1.0 and 2.0, 0.5, the byte 2, no bytes, 'a'
\* twice, and a list of one boxed 1.0
SeqValues ==
    {Array("Num", <<2>>, <<Scale, 2 * Scale>>),
     Array("Num", <<>>, <<Half>>),
     Array("Byte", <<1>>, <<2>>),
     Array("Byte", <<0>>, <<>>),
     Array("Char", <<2>>, <<97, 97>>),
     Array("Func", <<1>>, <<constant(Array("Num", <<>>, <<Scale>>))>>)}

InitSeq ==
    /\ a \in SeqValues
    /\ a0 = a
    /\ b = NoValue
    /\ c = NoValue
    /\ env \in BuilderContexts
    /\ op = "new"
    /\ calls = 0
    /\ res = NoValue
    /\ attempts = <<>>
    /\ builder = with_capacity(0)
    /\ added = <<>>
    /\ NoSharing
    /\ NoLoop

\* a = a.name(env): a failure leaves a as it was
SeqUn ==
    /\ calls < MaxSteps
    /\ \E name \in SeqUnOps :
           LET r == ValueUn(name, a, env)
           IN  /\ op' = name
               /\ res' = r
               /\ a' = IF r.ok THEN r.val ELSE a
    /\ calls' = calls + 1
    /\ UNCHANGED <<a0, b, c, env, attempts>>
    /\ UNCHANGED <<builderVars, ownVars, parVars>>

\* a = a.name(other, env)
SeqBin ==
    /\ calls < MaxSteps
    /\ \E name \in SeqBinOps, other \in SeqOperands :
           LET r == ValueBin(name, a, other, env)
           IN  /\ op' = name
               /\ b' = other
               /\ res' = r.res
               /\ attempts' = r.attempts
               /\ a' = IF r.res.ok THEN r.res.val ELSE a
    /\ calls' = calls + 1
    /\ UNCHANGED <<a0, c, env>>
    /\ UNCHANGED <<builderVars, ownVars, parVars>>

\* a.compress()
SeqCompress ==
    /\ calls < MaxSteps
    /\ a' = compress(a)
    /\ op' = "compress"
    /\ calls' = calls + 1
    /\ UNCHANGED <<a0, b, c, env, res, attempts>>
    /\ UNCHANGED <<builderVars, ownVars, parVars>>

\* builder.add_row(a.clone(), env)
SeqAddRow ==
    /\ calls < MaxSteps
    /\ LET r == add_row(builder, a, env)
       IN  /\ builder' = r.builder
           /\ res' = r.res
           /\ added' = Append(added, [row |-> a, ok |-> r.res.ok])
    /\ op' = "add_row"
    /\ calls' = calls + 1
    /\ UNCHANGED <<a, a0, b, c, env, attempts>>
    /\ UNCHANGED <<ownVars, parVars>>

\* a = builder.finish(), and a new builder is made
SeqFinish ==
    /\ calls < MaxSteps
    /\ a' = finish(builder)
    /\ builder' = with_capacity(0)
    /\ added' = <<>>
    /\ op' = "finish"
    /\ calls' = calls + 1
    /\ UNCHANGED <<a0, b, c, env, res, attempts>>
    /\ UNCHANGED <<ownVars, parVars>>

NextSeq == SeqUn \/ SeqBin \/ SeqCompress \/ SeqAddRow \/ SeqFinish

SpecSeq == InitSeq /\ [][NextSeq]_vars

----------------------------------------------------------------------------
\* Claim about the shape of every Value.

RECURSIVE WellShaped(_)

\* the flat length of v is the product of its shape, and so for every Value
\* boxed in v
WellShaped(v) ==
    /\ Len(v.data) = Product(v.shape)
    /\ v.kind = "Func" =>
           \A i \in 1..Len(v.data) : v.data[i].boxed => WellShaped(v.data[i].val)

\* C13: after any sequence of construction, unary and binary pervasive
\* operations, compress, add_row and finish, the flat length of every Value is
\* the product of its shape: of the Value operated on, of a result, and of the
\* accumulator of the builder.
C13_FlatLengthIsShapeProduct ==
    /\ WellShaped(a)
    /\ (op \in SeqUnOps \cup SeqBinOps /\ res.ok) => WellShaped(res.val)
    /\ builder.value # <<>> => WellShaped(builder.value[1])

\* a list of 1.0 and 2.0 was added as a row, the builder finished and the
\* Value was compressed
C13_Witness ==
    /\ op = "compress"
    /\ calls = 3
    /\ a0.kind = "Num"
    /\ a.kind = "Byte"
    /\ a.shape = <<1, 2>>
    /\ Len(a.data) = 2

----------------------------------------------------------------------------
\* Shared buffers.  The data of an Array is a reference-counted copy-on-write
\* buffer (array.rs, not in src/; spec.md sections 3 and 5): a clone of a Value
\* owns the buffer of the original, and a buffer with more than one owner is
\* copied before it is written.  Here a Value is a handle [kind, shape, buf]
\* on the buffer number buf of the heap; a0 and c are the Values the operands
\* a and b stood for when the operation was called.

\* a handle on the buffer n
Handle(kind, shape, n) == [kind |-> kind, shape |-> shape, buf |-> n]

\* the Value a handle stands for in the heap hp
ValueOf(hp, h) == Array(h.kind, h.shape, hp[h.buf])

\* the reference count of the buffer n: how many of the handles own it
Owners(handles, n) == Cardinality({i \in 1..Len(handles) : handles[i].buf = n})

\* the number of a buffer not in the heap yet
Fresh(hp) == Len(hp) + 1

\* the buffer a write through a handle on n lands in: n itself when the handle
\* is the only owner, a copy otherwise
Writable(hp, handles, n) == IF Owners(handles, n) > 1 THEN Fresh(hp) ELSE n

\* the heap with data in the buffer n
Store(hp, n, data) == IF n > Len(hp) THEN Append(hp, data) ELSE [hp EXCEPT ![n] = data]

\* a buffer a loop wrote to before the operation failed
Scribbled(data) == IF data = <<>> THEN data ELSE [data EXCEPT ![1] = @ + 1]

\* the heap after an operation that failed, having written (when partial) to
\* the buffers of numbers or characters of x and y that it alone owned
AfterFailure(hp, handles, x, y, partial) ==
    LET hx == IF partial /\ x.kind # "Func" /\ Owners(handles, x.buf) = 1
              THEN Store(hp, x.buf, Scribbled(hp[x.buf])) ELSE hp
    IN  IF partial /\ y.kind # "Func" /\ y.buf # x.buf /\ Owners(handles, y.buf) = 1
        THEN Store(hx, y.buf, Scribbled(hx[y.buf])) ELSE hx

\* the operands of the first attempt handed over as they are, without a clone
Clones_OperandsMoved(x, y) == <<>>

\* `a.clone(), b.clone()`: the owners the first attempt of a retry arm adds
Clones(x, y) == <<x, y>>

\* what a call leaves: the heap, the outcome, the bin_pervade calls, and the
\* buffer of the result
Left(hp, r, tries, n) == [heap |-> hp, res |-> r, attempts |-> tries, buf |-> n]

\* the buffer of the result r of an operation that owned x: the buffer of x
\* when r has its kind and shape, written in place or copied; else a new one
ResultBuffer(hp, handles, x, r) ==
    IF r.val.kind = x.kind /\ r.val.shape = x.shape
    THEN Writable(hp, handles, x.buf) ELSE Fresh(hp)

\* what a call leaves when its outcome r goes to the buffer n
Kept(hp, n, r, tries) ==
    Left(IF r.ok THEN Store(hp, n, r.val.data) ELSE hp, r, tries, n)

\* the retry made: its outcome r2 on the converted operands cx and cy
RetryDone(hp, f, cx, cy, r2, first) ==
    Kept(hp, Fresh(hp), r2, <<first, Attempt(f, cx, cy, r2)>>)

\* bin_pervade(a.convert(), b.convert(), env, name::retry)
RetryOn(name, f, hp, cx, cy, e, first) ==
    RetryDone(hp, f, cx, cy, bin_pervade(name, f, cx, cy, e), first)

\* one arm of the match after its first bin_pervade gave r: handles own the
\* buffers during that call, hp1 is the heap a failure of it leaves, retrying
\* is whether the arm may retry; a.convert() and b.convert() read the buffers
\* of the operands as the first attempt left them
OwnAttempt(name, arm, hp, hp1, handles, x, y, vx, vy, e, retrying, r) ==
    IF r.ok THEN
        Kept(hp, ResultBuffer(hp, handles, x, r), r, <<Attempt(arm.f, vx, vy, r)>>)
    ELSE IF retrying /\ r.fill /\ arm.retry # "" THEN
        RetryOn(name, arm.retry, hp1, convert(ValueOf(hp1, x)),
                convert(ValueOf(hp1, y)), e, Attempt(arm.f, vx, vy, r))
    ELSE Left(hp1, r, <<Attempt(arm.f, vx, vy, r)>>, Fresh(hp))

\* one arm of the match: the first attempt of an arm that may retry runs on
\* clones of the operands, every other arm on the operands themselves
OwnArm(name, arm, hp, x, y, vx, vy, live, e, partial, retrying) ==
    OwnAttempt(name, arm, hp,
               AfterFailure(hp, IF retrying THEN live \o Clones(x, y) ELSE live,
                            x, y, partial),
               IF retrying THEN live \o Clones(x, y) ELSE live,
               x, y, vx, vy, e, retrying,
               bin_pervade(name, arm.f, vx, vy, e))

\* the arms of the boxes and the type error: d is what the dispatch gives
OwnOther(hp, d) ==
    Left(IF d.res.ok THEN Store(hp, Fresh(hp), d.res.val.data) ELSE hp,
         d.res, d.attempts, Fresh(hp))

\* the match of value_bin_impl! once the arm i is known
OwnMatch(name, i, hp, x, y, vx, vy, live, e, partial) ==
    IF i = 0 THEN OwnOther(hp, ValueBin(name, vx, vy, e))
    ELSE OwnArm(name, MatchArms(name)[i], hp, x, y, vx, vy, live, e, partial,
                /\ i > Len(InPlace(name))
                /\ \/ val_retry(MatchArms(name)[i].na, e)
                   \/ val_retry(MatchArms(name)[i].nb, e))

\* Value::$name(self, other, env) of value_bin_impl! on handles; live are the
\* handles that own buffers during the call, partial is whether a failing
\* loop had written to a buffer it owned alone
OwnBin(name, hp, x, y, live, e, partial) ==
    OwnMatch(name, FirstArm(MatchArms(name), x.kind, y.kind), hp, x, y,
             ValueOf(hp, x), ValueOf(hp, y), live, e, partial)

\* Value::$name(self, env) of value_un_impl! on a handle: the in-place arm
\* writes through array.data, the other arms make a new buffer
OwnUn(name, hp, x, live, e) ==
    Kept(hp,
         IF x.kind \in InPlaceUn(name) THEN Writable(hp, live, x.buf) ELSE Fresh(hp),
         ValueUn(name, ValueOf(hp, x), e), <<>>)

\* the state after a call that left l: a is the result, or what it was
OwnDone(name, l) ==
    /\ op' = name
    /\ heap' = l.heap
    /\ res' = l.res
    /\ attempts' = l.attempts
    /\ a' = IF l.res.ok THEN Handle(l.res.val.kind, l.res.val.shape, l.buf) ELSE a

\* the operands: 0.5, the list 0.5 2.0, the bytes 2 and 0 2, 'a', a boxed 1.0
OwnValues ==
    {Array("Num", <<>>, <<Half>>),
     Array("Num", <<2>>, <<Half, ToDouble(2)>>),
     Array("Byte", <<1>>, <<2>>),
     Array("Byte", <<2>>, <<0, 2>>),
     Array("Char", <<1>>, <<97>>),
     Array("Func", <<>>, <<constant(Array("Num", <<>>, <<Scale>>))>>)}

\* the clone of the Value v in the buffer n, with the data it saw when taken
Held(v, n) == [kind |-> v.kind, shape |-> v.shape, buf |-> n, saw |-> v.data]

\* a and b in the buffers 1 and 2, or b a clone of a in the buffer 1; a clone
\* of either may be held elsewhere
InitOwn ==
    /\ a0 \in OwnValues
    /\ c \in OwnValues
    /\ heap = <<a0.data, c.data>>
    /\ a = Handle(a0.kind, a0.shape, 1)
    /\ b \in {Handle(c.kind, c.shape, 2)}
             \cup (IF c = a0 THEN {Handle(c.kind, c.shape, 1)} ELSE {})
    /\ held \in {<<>>, <<Held(a0, 1)>>, <<Held(c, b.buf)>>, <<Held(a0, 1), Held(c, b.buf)>>}
    /\ env \in Contexts
    /\ op = "new"
    /\ calls = 0
    /\ res = NoValue
    /\ attempts = <<>>
    /\ NoBuilder
    /\ NoLoop

\* a = a.name(env), with b and the clones alive
OwnUnCall ==
    /\ calls = 0
    /\ \E name \in UnOps :
           OwnDone(name, OwnUn(name, heap, a, <<a, b>> \o held, env))
    /\ calls' = 1
    /\ UNCHANGED <<a0, b, c, env, held>>
    /\ UNCHANGED <<builderVars, parVars>>

\* a = a.name(b, env), with the clones alive
OwnBinCall ==
    /\ calls = 0
    /\ \E name \in BinOps, partial \in BOOLEAN :
           OwnDone(name, OwnBin(name, heap, a, b, <<a, b>> \o held, env, partial))
    /\ calls' = 1
    /\ UNCHANGED <<a0, b, c, env, held>>
    /\ UNCHANGED <<builderVars, parVars>>

NextOwn == OwnUnCall \/ OwnBinCall

SpecOwn == InitOwn /\ [][NextOwn]_vars

----------------------------------------------------------------------------
\* Claim about the holders of shared buffers.

\* C14: after a unary or binary pervasive operation, failed or not, every
\* clone taken before the call stands for the data it saw (and so does the
\* Value b a unary operation was not applied to), and the outcome, the retry's
\* included, is the one computed from the operands as they were at the call.
C14_ClonesUnchanged ==
    (op \in UnOps \cup BinOps) =>
        /\ \A i \in 1..Len(held) : heap[held[i].buf] = held[i].saw
        /\ op \in UnOps =>
               /\ Same(ValueOf(heap, b), c)
               /\ SameResult(res, ValueUn(op, a0, env))
        /\ op \in BinOps => SameResult(res, ValueBin(op, a0, c, env).res)
        /\ res.ok => Same(ValueOf(heap, a), res.val)

\* bytes of two lengths were added with a numeric fill and no clone held: the
\* first attempt failed, the retry succeeded on the bytes as they were
C14_Witness ==
    /\ op = "add"
    /\ held = <<>>
    /\ a0.kind = "Byte"
    /\ c.kind = "Byte"
    /\ a0.shape # c.shape
    /\ Len(attempts) = 2
    /\ ~attempts[1].outcome.ok
    /\ res.ok
    /\ heap[1] = a0.data
    /\ heap[2] = c.data

----------------------------------------------------------------------------
\* The parallel loop of the in-place arm of value_un_impl!:
\* array.data.par_iter_mut().with_min_len(10000).for_each(|val| *val = f(*val)).
\* par_iter_mut splits the slice into consecutive pieces, one per worker; a
\* worker takes the slots of its piece in order, and for each reads *val,
\* applies f and writes *val.  The steps of the workers interleave freely.
\* with_min_len only forbids some of the splits taken here.

\* the operations whose scalar function stays in the fixed-point format
ParOps == {"neg", "not", "abs", "sign", "floor", "ceil", "round"}

\* the scalar function of the arm on an element of a0
ScalarUn(x) == IF a0.kind = "Byte" THEN ByteUn(op, x) ELSE NumUn(op, x)

\* the ways to cut n slots in MaxWorkers consecutive pieces: cut[w] is the
\* last slot of the piece of worker w
Cuts(n) ==
    {cut \in [0..MaxWorkers -> 0..n] :
        /\ cut[0] = 0
        /\ cut[MaxWorkers] = n
        /\ \A w \in 1..MaxWorkers : cut[w - 1] <= cut[w]}

\* pieces that all start at the first slot of the slice
FirstSlot_SharedSlice(cut, w) == 1

\* the first slot of the piece of worker w: the one after the piece before
FirstSlot(cut, w) == cut[w - 1] + 1

\* the Values the loop runs over: -0.5 and 0.5; 0 and 2
ParValues ==
    ArraysOf("Num", {<<>>} \cup {<<n>> : n \in 0..(MaxLen + 1)}, {0 - Half, Half}) \cup ArraysOf("Byte", Shapes1, {0, 2})

InitPar ==
    /\ op \in ParOps
    /\ a \in {v \in ParValues : v.kind \in InPlaceUn(op)}
    /\ a0 = a
    /\ b = NoValue
    /\ c = NoValue
    /\ env = NoFill
    /\ calls = 0
    /\ res = NoValue
    /\ attempts = <<>>
    /\ NoBuilder
    /\ NoSharing
    /\ buf = a.data
    /\ writes = [i \in 1..Len(a.data) |-> <<>>]
    /\ \E cut \in Cuts(Len(a.data)) :
           workers = [w \in 1..MaxWorkers |->
                         [pc |-> "read", slot |-> FirstSlot(cut, w), last |-> cut[w],
                          val |-> 0]]

\* a worker reads *val of its next slot
ParRead ==
    /\ res = NoValue
    /\ \E w \in 1..MaxWorkers :
           /\ workers[w].pc = "read"
           /\ workers[w].slot <= workers[w].last
           /\ workers' = [workers EXCEPT ![w].pc = "write",
                                         ![w].val = buf[workers[w].slot]]
    /\ UNCHANGED <<valueVars, builderVars, ownVars, buf, writes>>

\* a worker writes f of what it read to the slot and moves to the next one
ParWrite ==
    /\ \E w \in 1..MaxWorkers :
           /\ workers[w].pc = "write"
           /\ buf' = [buf EXCEPT ![workers[w].slot] = ScalarUn(workers[w].val)]
           /\ writes' = [writes EXCEPT ![workers[w].slot] = Append(@, w)]
           /\ workers' = [workers EXCEPT ![w].pc = "read", ![w].slot = @ + 1]
    /\ UNCHANGED <<valueVars, builderVars, ownVars>>

\* every worker is through its piece: for_each returns and array.into() is
\* the result
ParJoin ==
    /\ res = NoValue
    /\ \A w \in 1..MaxWorkers :
           workers[w].pc = "read" /\ workers[w].slot > workers[w].last
    /\ res' = Ok(Array(a.kind, a.shape, buf))
    /\ calls' = 1
    /\ UNCHANGED <<a, a0, b, c, env, op, attempts>>
    /\ UNCHANGED <<builderVars, ownVars, parVars>>

NextPar == ParRead \/ ParWrite \/ ParJoin

SpecPar == InitPar /\ [][NextPar]_vars

----------------------------------------------------------------------------
\* Claim about the parallel loop.

\* C15: under every interleaving of the workers each slot is written at most
\* once, and once when the loop is over, with f of the slot's original value;
\* a worker holding what it read from a slot is the only one at that slot and
\* nobody has written it; the final buffer is the one the sequential loop gives.
C15_ParallelIsSequential ==
    /\ \A i \in 1..Len(buf) :
           /\ Len(writes[i]) <= 1
           /\ buf[i] = IF Len(writes[i]) = 1 THEN ScalarUn(a0.data[i]) ELSE a0.data[i]
    /\ \A w \in 1..MaxWorkers :
           workers[w].pc = "write" =>
               /\ workers[w].val = a0.data[workers[w].slot]
               /\ writes[workers[w].slot] = <<>>
               /\ \A v \in 1..MaxWorkers \ {w} :
                      ~(workers[v].slot = workers[w].slot /\ workers[v].slot <= workers[v].last)
    /\ res # NoValue =>
           /\ \A i \in 1..Len(buf) : Len(writes[i]) = 1
           /\ SameResult(res, ValueUn(op, a0, env))

\* two workers negated one slot each and were joined
C15_Witness ==
    /\ op = "neg"
    /\ a0.kind = "Num"
    /\ a0.data = <<0 - Half, Half>>
    /\ writes = <<<<1>>, <<2>>>>
    /\ res # NoValue
    /\ res.val.data = <<Half, 0 - Half>>

====
